---- MODULE Spec2Model ----
(***************************************************************************)
(* Ticket-Dashboard backend: presence tracking (users.is_online and        *)
(* users.last_seen), the Socket.io connection registry with its rooms, the *)
(* dual-channel notifier notifyAllUsers, the project-room broadcast of the *)
(* ticket controller, the middleware chain of the protected REST routes,   *)
(* the ticket handlers with the order_index they store, and the listings   *)
(* of a lane on the server and in the browser's ticket store; the project  *)
(* handlers and the foreign keys of the activities table, the handshake    *)
(* check of the sockets and the relay of board events, the browser's       *)
(* SocketService, and the OTP verification of the login.                   *)
(*                                                                         *)
(* The server is one Node.js process: a handler runs without interruption  *)
(* from one await to the next.  Each action below is one such segment.     *)
(* The SQL statements issued without await (setUserOnlineStatus in the     *)
(* socket handlers) are kept in pendingWrites until the database applies   *)
(* them, in any order.  One notifyAllUsers call is followed at a time;     *)
(* socket events and database writes interleave with it at its awaits.     *)
(* Ticket handlers occupy request slots: one slot gives requests handled   *)
(* one at a time, two slots give handlers whose awaits interleave.         *)
(***************************************************************************)
EXTENDS Integers, Sequences, FiniteSets, Bags, TLC

\* ------------------------------------------------------------------ bounds
\* how many times the clock advances
MaxTicks == 2
\* un-awaited UPDATE statements in flight at once (presence specification)
MaxPending == 2
\* the same while a ticket request is being followed
MaxPendingNotify == 1

\* ticket ids the tickets table may hold at once
MaxTickets == 2
\* store writes the handlers may commit before requests stop coming
MaxMutations == 3
\* sockets one browser may make before it stops calling connect
MaxClientSockets == 3
\* rows the otps table may get
MaxOtps == 2
\* steps of half the OTP lifetime the clock makes while OTPs are verified
MaxOtpTicks == 3

\* ------------------------------------------------------------ the universe
\* identities; those with a row in the users table are DOMAIN users, and
\* UserOrder lists them by created_at DESC
Users == {"u1", "u2", "u3"}
UserOrder == <<"u3", "u2", "u1">>
Projects == {"p1"}
\* projects with tickets: those whose rooms are followed and one more
AllProjects == Projects \cup {"p2"}
NoUser == "none"
\* socket ids the registry may hold at once
Conns == {"s1", "s2"}
\* ticket requests the server may be handling at once
Slots == {"r1", "r2"}

\* queries.ts:100  (EXTRACT(EPOCH FROM (CURRENT_TIMESTAMP - last_seen)) > 120)
OfflineThresholdSeconds == 120
\* the clock advances in steps of the threshold, so that ages of exactly the
\* threshold and beyond it both occur
TickStep == OfflineThresholdSeconds

VARIABLES
  users,          \* users table: id -> [is_online, last_seen]
  now,            \* CURRENT_TIMESTAMP, seconds
  sockUser,       \* socket.data.user.userId of each open socket, NoUser if closed
  sockRooms,      \* rooms each socket has joined
  pendingWrites,  \* bag of UPDATE statements issued and not yet applied
  offlineResult,  \* the isUserOffline call a caller is holding the result of
  pc,             \* position of the running ticket request
  actor,          \* req.user.userId of the running request
  allUsers,       \* notifyAllUsers: rows returned by getAllUsersExcept
  connectedUserIds, \* notifyAllUsers: user ids of the fetched sockets
  idx,            \* notifyAllUsers: position of the for loop in allUsers
  route,          \* per user: which branch of the loop body was taken
  emails,         \* per user: calls of sendNotificationEmail to the address
  pushRecv,       \* sockets that received the 'notification' event, with owner
  board,          \* the board event emitted by the running request
  lastReq,        \* the REST request that came in last, and how far it got
  pendingLastSeen, \* updateUserLastSeen statements issued and not yet applied
  tickets,        \* tickets table: id -> [project_id, status, order_index, created_at]
  activities,     \* activities table, in insertion order
  treq,           \* ticket requests in flight, per request slot
  listing,        \* rows of the last getProjectTickets answer
  clientTickets,  \* tickets array of the browser's ticket store
  projects,       \* projects table: id -> [name]
  mutations,      \* store writes the ticket and project handlers committed
  handshake,      \* socket.handshake.auth.token of each socket's handshake
  relayed,        \* the board event a socket sent last, and who received it
  socket,         \* SocketService.socket of a browser: a client socket or null
  isConnected,    \* SocketService.isConnected
  clientSockets,  \* the sockets io() made for the browser, and their state
  otps,           \* otps table in insertion order, deleted rows marked
  vreq            \* verify-otp requests in flight, per request slot

presenceVars == <<users, now, sockUser, sockRooms, pendingWrites, offlineResult>>
notifyVars == <<pc, actor, allUsers, connectedUserIds, idx, route, emails,
                pushRecv, board>>
restVars == <<lastReq, pendingLastSeen>>
orderVars == <<tickets, activities, treq, listing, clientTickets>>
clientVars == <<socket, isConnected, clientSockets>>
authVars == <<otps, vreq>>
extVars == <<relayed, clientVars, authVars>>
storeVars == <<lastReq, pendingLastSeen, tickets, activities, treq, listing,
               clientTickets, projects, mutations, extVars>>
apiVars == <<storeVars, handshake>>
vars == <<users, now, sockUser, sockRooms, pendingWrites, offlineResult,
          pc, actor, allUsers, connectedUserIds, idx, route, emails,
          pushRecv, board, lastReq, pendingLastSeen, tickets, activities,
          treq, listing, clientTickets, projects, mutations, handshake,
          relayed, socket, isConnected, clientSockets, otps, vreq>>

\* --------------------------------------------------------------- room keys
\* variant: one notification room for every identity
UserRoomShared(u) == "user"

\* socket.join(`user-${user.userId}`)  /  io.to(`user-${user.id}`)
UserRoom(u) == "user-" \o u
\* socket.join(`project-${projectId}`)
JoinedProjectRoom(p) == "project-" \o p
\* io.to(`project:${ticket.project_id}`)
EmittedProjectRoom(p) == "project:" \o p

\* io.to(room): the open sockets that are members of the room
SocketsIn(room) == {c \in Conns : sockUser[c] # NoUser /\ room \in sockRooms[c]}
\* open sockets of one identity
OpenSockets(u) == {c \in Conns : sockUser[c] = u}

\* ---------------------------------------------------------------- queries
\* UPDATE users SET is_online = $1, last_seen = CURRENT_TIMESTAMP WHERE id = $2
setUserOnlineStatus(table, userId, isOnline, ts) ==
  [u \in DOMAIN table |->
     IF u = userId THEN [is_online |-> isOnline, last_seen |-> ts]
                   ELSE table[u]]

\* variant: the comparison written >= instead of >
IsStaleInclusive(lastSeen, ts) == ts - lastSeen >= OfflineThresholdSeconds

\* SELECT ... (EXTRACT(EPOCH FROM (CURRENT_TIMESTAMP - last_seen)) > 120) as is_stale
IsStale(lastSeen, ts) == ts - lastSeen > OfflineThresholdSeconds

\* rows of  SELECT ... FROM users WHERE id = $1
SelectUser(table, userId) == {u \in DOMAIN table : u = userId}

\* variant: offline only when both is_online is false and last_seen is stale
isUserOfflineBoth(table, userId, ts) ==
  IF SelectUser(table, userId) = {}
    THEN TRUE
    ELSE (~table[userId].is_online) /\ IsStale(table[userId].last_seen, ts)

\* isUserOffline: no row -> true; otherwise !is_online || is_stale
isUserOffline(table, userId, ts) ==
  IF SelectUser(table, userId) = {}
    THEN TRUE
    ELSE (~table[userId].is_online) \/ IsStale(table[userId].last_seen, ts)

\* variant: the WHERE clause left out
getAllUsersUnfiltered(table, excludeUserId) ==
  SelectSeq(UserOrder, LAMBDA u : u \in DOMAIN table)

\* SELECT * FROM users WHERE id != $1 ORDER BY created_at DESC
getAllUsersExcept(table, excludeUserId) ==
  SelectSeq(UserOrder, LAMBDA u : u \in DOMAIN table /\ u # excludeUserId)

\* ----------------------------------------------------------------- Init
NoRoute == [u \in Users |-> "none"]
NoBoard == [project |-> "none", recv |-> {}]
NoResult == [id |-> "none", found |-> FALSE, is_online |-> FALSE, age |-> 0,
             result |-> FALSE]
Times == {t * TickStep : t \in 0..MaxTicks}

\* no REST request has come in yet
NoRequest == [user |-> NoUser, at |-> 0, status |-> "none"]
\* the tickets table without rows
NoTickets == [t \in {} |-> 0]
\* a request slot that no ticket request occupies
IdleRequest == [op |-> "none", pc |-> "idle", user |-> NoUser, id |-> 0,
                project_id |-> "none", body |-> [status |-> "undefined"],
                current |-> "none",
                maxOrder |-> 0, answer |-> 0]

\* SocketService.socket before the first connect and after disconnect
Null == 0
\* the sockets io() may make for one browser
ClientSocketIds == 1..MaxClientSockets
\* a socket io() has not made yet
Unused == [state |-> "unused", token |-> "none"]

\* a request slot that no verify-otp request occupies
IdleVerify == [pc |-> "idle", email |-> "none", otp |-> "none", row |-> 0,
               answer |-> 0]

\* no board event has been relayed
NoRelay == [event |-> "none", project |-> "none", from |-> "none", recv |-> {}]

\* a fresh server over a users table that holds the rows of `registered`
\* and a tickets table that holds `table`
InitStore(registered, table) ==
  /\ users = [u \in registered |-> [is_online |-> FALSE, last_seen |-> 0]]
  /\ now = 0
  /\ sockUser = [c \in Conns |-> NoUser]
  /\ sockRooms = [c \in Conns |-> {}]
  /\ pendingWrites = EmptyBag
  /\ offlineResult = NoResult
  /\ pc = "idle"
  /\ actor = NoUser
  /\ allUsers = <<>>
  /\ connectedUserIds = {}
  /\ idx = 0
  /\ route = NoRoute
  /\ emails = [u \in Users |-> 0]
  /\ pushRecv = {}
  /\ board = NoBoard
  /\ lastReq = NoRequest
  /\ pendingLastSeen = EmptyBag
  /\ tickets = table
  /\ activities = <<>>
  /\ treq = [r \in Slots |-> IdleRequest]
  /\ listing = <<>>
  /\ clientTickets = <<>>
  /\ projects = [p \in AllProjects |-> [name |-> "a"]]
  /\ mutations = 0
  /\ handshake = [c \in Conns |-> "none"]
  /\ relayed = NoRelay
  /\ socket = Null
  /\ isConnected = FALSE
  /\ clientSockets = [k \in ClientSocketIds |-> Unused]
  /\ otps = <<>>
  /\ vreq = [r \in Slots |-> IdleVerify]

InitWith(registered) == InitStore(registered, NoTickets)

\* the JavaScript thread is inside a synchronous stretch of notifyAllUsers
Busy == pc = "loop"

\* ------------------------------------------------------- socket handlers
\* io.on('connection') with socket.data.user = u: the handler issues
\* setUserOnlineStatus(userId, true) without await and joins the user room
OnConnection(c, u, cap) ==
  /\ ~Busy
  /\ u \in DOMAIN users
  /\ sockUser[c] = NoUser
  /\ BagCardinality(pendingWrites) < cap
  /\ sockUser' = [sockUser EXCEPT ![c] = u]
  /\ sockRooms' = [sockRooms EXCEPT ![c] = {UserRoom(u)}]
  /\ pendingWrites' = pendingWrites (+) SetToBag({[user |-> u, is_online |-> TRUE]})
  /\ UNCHANGED <<users, now, offlineResult>>
  /\ UNCHANGED notifyVars
  /\ UNCHANGED storeVars

\* a socket connects with the token signed for u: the handshake passes the
\* token check and the connection handler runs
Connect(c, u, cap) ==
  /\ OnConnection(c, u, cap)
  /\ handshake' = [handshake EXCEPT ![c] = u]

\* socket.on('disconnect'): the socket leaves the registry and every room;
\* the handler issues setUserOnlineStatus(userId, false) without await
Disconnect(c, cap) ==
  /\ ~Busy
  /\ sockUser[c] # NoUser
  /\ BagCardinality(pendingWrites) < cap
  /\ sockUser' = [sockUser EXCEPT ![c] = NoUser]
  /\ sockRooms' = [sockRooms EXCEPT ![c] = {}]
  /\ pendingWrites' = pendingWrites (+)
                        SetToBag({[user |-> sockUser[c], is_online |-> FALSE]})
  /\ handshake' = [handshake EXCEPT ![c] = "none"]
  /\ UNCHANGED <<users, now, offlineResult>>
  /\ UNCHANGED notifyVars
  /\ UNCHANGED storeVars

\* socket.on('join-project')
JoinProject(c, p) ==
  /\ ~Busy
  /\ sockUser[c] # NoUser
  /\ JoinedProjectRoom(p) \notin sockRooms[c]
  /\ sockRooms' = [sockRooms EXCEPT ![c] = @ \cup {JoinedProjectRoom(p)}]
  /\ UNCHANGED <<users, now, sockUser, pendingWrites, offlineResult>>
  /\ UNCHANGED notifyVars
  /\ UNCHANGED apiVars

\* socket.on('leave-project')
LeaveProject(c, p) ==
  /\ ~Busy
  /\ sockUser[c] # NoUser
  /\ JoinedProjectRoom(p) \in sockRooms[c]
  /\ sockRooms' = [sockRooms EXCEPT ![c] = @ \ {JoinedProjectRoom(p)}]
  /\ UNCHANGED <<users, now, sockUser, pendingWrites, offlineResult>>
  /\ UNCHANGED notifyVars
  /\ UNCHANGED apiVars

\* ------------------------------------------------------------ the database
\* the database executes one of the UPDATE statements in flight
ApplyWrite(w) ==
  /\ BagIn(w, pendingWrites)
  /\ users' = setUserOnlineStatus(users, w.user, w.is_online, now)
  /\ pendingWrites' = pendingWrites (-) SetToBag({w})
  /\ UNCHANGED <<now, sockUser, sockRooms, offlineResult>>
  /\ UNCHANGED notifyVars
  /\ UNCHANGED apiVars

\* the statement fails; the handler's .catch logs the error and drops it
FailWrite(w) ==
  /\ BagIn(w, pendingWrites)
  /\ pendingWrites' = pendingWrites (-) SetToBag({w})
  /\ UNCHANGED <<users, now, sockUser, sockRooms, offlineResult>>
  /\ UNCHANGED notifyVars
  /\ UNCHANGED apiVars

Tick ==
  /\ now + TickStep <= MaxTicks * TickStep
  /\ now' = now + TickStep
  /\ UNCHANGED <<users, sockUser, sockRooms, pendingWrites, offlineResult>>
  /\ UNCHANGED notifyVars
  /\ UNCHANGED apiVars

Writes == {[user |-> u, is_online |-> b] : u \in Users, b \in BOOLEAN}

\* a caller awaits isUserOffline(id), for an id with or without a row, and
\* holds the result together with what the row was
IsUserOfflineCall(id) ==
  /\ ~Busy
  /\ offlineResult = NoResult
  /\ offlineResult' =
       [id |-> id,
        found |-> id \in DOMAIN users,
        is_online |-> IF id \in DOMAIN users THEN users[id].is_online ELSE FALSE,
        age |-> IF id \in DOMAIN users THEN now - users[id].last_seen ELSE 0,
        result |-> isUserOffline(users, id, now)]
  /\ UNCHANGED <<users, now, sockUser, sockRooms, pendingWrites>>
  /\ UNCHANGED notifyVars
  /\ UNCHANGED apiVars

\* the caller is done with the result
IsUserOfflineDone ==
  /\ offlineResult # NoResult
  /\ offlineResult' = NoResult
  /\ UNCHANGED <<users, now, sockUser, sockRooms, pendingWrites>>
  /\ UNCHANGED notifyVars
  /\ UNCHANGED apiVars

\* ------------------------------------------------- presence specification
\* two registered identities; "u3" has no row
PresenceUsers == {"u1", "u2"}
InitPresence == InitWith(PresenceUsers)

PresenceNext ==
  \/ \E c \in Conns, u \in Users : Connect(c, u, MaxPending)
  \/ \E c \in Conns : Disconnect(c, MaxPending)
  \/ \E w \in Writes : ApplyWrite(w)
  \/ \E w \in Writes : FailWrite(w)
  \/ Tick
  \/ \E id \in Users : IsUserOfflineCall(id)
  \/ IsUserOfflineDone

SpecPresence == InitPresence /\ [][PresenceNext]_vars

\* --------------------------------------------------- the ticket request
\* socket.data.user?.userId of every socket io.fetchSockets() returns
FetchedUserIds == {sockUser[c] : c \in {d \in Conns : sockUser[d] # NoUser}}

\* if (connectedUserIds.has(user.id)) { ... }
PushBranch(user, connected) == user \in connected
\* variant: the lookup runs after the push as well (an if without its else)
LookupBranchAlways(user, connected) == TRUE
\* ... else { const offline = await isUserOffline(user.id); ... }
LookupBranch(user, connected) == ~PushBranch(user, connected)
\* variant: the email goes out whatever the lookup returned
EmailBranchAlways(offline) == TRUE
\* if (offline) { await sendNotificationEmail(...) } else { skipped }
EmailBranch(offline) == offline
\* the for loop moves on to the next user after an iteration
NextIndex(i) == i + 1
\* variant: the catch sits outside the loop, an error ends it
AfterErrorAbort(i, len) == len + 1
\* catch (error) { ... // Continue with other users even if one fails }
AfterError(i, len) == i + 1

\* ticketController (createTicket, updateTicket, moveTicket, deleteTicket):
\* once the store write and the activity record are done the handler emits
\* the board event to the project room and calls notifyAllUsers, which
\* awaits getAllUsersExcept
TicketMutation(a, p) ==
  /\ pc = "idle"
  /\ a \in DOMAIN users
  /\ actor' = a
  /\ board' = [project |-> p, recv |-> SocketsIn(EmittedProjectRoom(p))]
  /\ pc' = "getUsers"
  /\ UNCHANGED <<allUsers, connectedUserIds, idx, route, emails, pushRecv>>
  /\ UNCHANGED presenceVars
  /\ UNCHANGED apiVars

\* getAllUsersExcept returns; io.fetchSockets() takes the sockets of this
\* moment and the for loop starts
GetUsersReturn ==
  /\ pc = "getUsers"
  /\ allUsers' = getAllUsersExcept(users, actor)
  /\ connectedUserIds' = FetchedUserIds
  /\ idx' = 1
  /\ pc' = "loop"
  /\ UNCHANGED <<actor, route, emails, pushRecv, board>>
  /\ UNCHANGED presenceVars
  /\ UNCHANGED apiVars

\* getAllUsersExcept rejects: the outer catch rethrows
GetUsersThrow ==
  /\ pc = "getUsers"
  /\ pc' = "failed"
  /\ UNCHANGED <<actor, allUsers, connectedUserIds, idx, route, emails, pushRecv, board>>
  /\ UNCHANGED presenceVars
  /\ UNCHANGED apiVars

\* the loop is past the last user
LoopEnd ==
  /\ pc = "loop"
  /\ idx > Len(allUsers)
  /\ pc' = "done"
  /\ UNCHANGED <<actor, allUsers, connectedUserIds, idx, route, emails, pushRecv, board>>
  /\ UNCHANGED presenceVars
  /\ UNCHANGED apiVars

\* io.to(`user-${user.id}`).emit('notification', ...); then on to the next
\* user, the else branch not being entered
LoopPush ==
  /\ pc = "loop"
  /\ idx <= Len(allUsers)
  /\ LET user == allUsers[idx] IN
       /\ PushBranch(user, connectedUserIds)
       /\ pushRecv' = pushRecv \cup {<<c, sockUser[c]>> : c \in SocketsIn(UserRoom(user))}
       /\ route' = [route EXCEPT ![user] = "push"]
       /\ IF LookupBranch(user, connectedUserIds)
            THEN pc' = "awaitOffline" /\ idx' = idx
            ELSE pc' = "loop" /\ idx' = NextIndex(idx)
  /\ UNCHANGED <<actor, allUsers, connectedUserIds, emails, board>>
  /\ UNCHANGED presenceVars
  /\ UNCHANGED apiVars

\* the emit throws; the catch of the loop body logs it
LoopPushThrow ==
  /\ pc = "loop"
  /\ idx <= Len(allUsers)
  /\ PushBranch(allUsers[idx], connectedUserIds)
  /\ route' = [route EXCEPT ![allUsers[idx]] = "pushError"]
  /\ idx' = AfterError(idx, Len(allUsers))
  /\ UNCHANGED <<pc, actor, allUsers, connectedUserIds, emails, pushRecv, board>>
  /\ UNCHANGED presenceVars
  /\ UNCHANGED apiVars

\* the user is not among the fetched sockets: await isUserOffline(user.id)
LoopLookup ==
  /\ pc = "loop"
  /\ idx <= Len(allUsers)
  /\ ~PushBranch(allUsers[idx], connectedUserIds)
  /\ LookupBranch(allUsers[idx], connectedUserIds)
  /\ pc' = "awaitOffline"
  /\ UNCHANGED <<actor, allUsers, connectedUserIds, idx, route, emails, pushRecv, board>>
  /\ UNCHANGED presenceVars
  /\ UNCHANGED apiVars

\* isUserOffline returns: on true sendNotificationEmail is called and
\* awaited, on false the user is skipped
OfflineReturns ==
  /\ pc = "awaitOffline"
  /\ LET user == allUsers[idx]
         offline == isUserOffline(users, user, now) IN
       IF EmailBranch(offline)
         THEN /\ emails' = [emails EXCEPT ![user] = @ + 1]
              /\ route' = [route EXCEPT ![user] = IF @ = "none" THEN "email" ELSE @]
              /\ pc' = "awaitSend"
              /\ idx' = idx
         ELSE /\ route' = [route EXCEPT ![user] = IF @ = "none" THEN "skip" ELSE @]
              /\ pc' = "loop"
              /\ idx' = NextIndex(idx)
              /\ UNCHANGED emails
  /\ UNCHANGED <<actor, allUsers, connectedUserIds, pushRecv, board>>
  /\ UNCHANGED presenceVars
  /\ UNCHANGED apiVars

\* isUserOffline rejects; the catch of the loop body logs it
OfflineThrows ==
  /\ pc = "awaitOffline"
  /\ route' = [route EXCEPT ![allUsers[idx]] = IF @ = "none" THEN "lookupError" ELSE @]
  /\ pc' = "loop"
  /\ idx' = AfterError(idx, Len(allUsers))
  /\ UNCHANGED <<actor, allUsers, connectedUserIds, emails, pushRecv, board>>
  /\ UNCHANGED presenceVars
  /\ UNCHANGED apiVars

\* sgMail.send resolves: sendNotificationEmail returns true
SendOk ==
  /\ pc = "awaitSend"
  /\ route' = [route EXCEPT ![allUsers[idx]] = IF @ = "email" THEN "emailed" ELSE @]
  /\ pc' = "loop"
  /\ idx' = NextIndex(idx)
  /\ UNCHANGED <<actor, allUsers, connectedUserIds, emails, pushRecv, board>>
  /\ UNCHANGED presenceVars
  /\ UNCHANGED apiVars

\* sgMail.send rejects: sendNotificationEmail catches and returns false
SendFails ==
  /\ pc = "awaitSend"
  /\ route' = [route EXCEPT ![allUsers[idx]] = IF @ = "email" THEN "emailFailed" ELSE @]
  /\ pc' = "loop"
  /\ idx' = NextIndex(idx)
  /\ UNCHANGED <<actor, allUsers, connectedUserIds, emails, pushRecv, board>>
  /\ UNCHANGED presenceVars
  /\ UNCHANGED apiVars

\* sgMail.send never settles: the await of the loop body never resumes
SendHangs ==
  /\ pc = "awaitSend"
  /\ pc' = "hung"
  /\ UNCHANGED <<actor, allUsers, connectedUserIds, idx, route, emails, pushRecv, board>>
  /\ UNCHANGED presenceVars
  /\ UNCHANGED apiVars

\* notifyAllUsers has settled; the controller answers and the request ends
RequestEnd ==
  /\ pc \in {"done", "failed"}
  /\ pc' = "idle"
  /\ actor' = NoUser
  /\ allUsers' = <<>>
  /\ connectedUserIds' = {}
  /\ idx' = 0
  /\ route' = NoRoute
  /\ emails' = [u \in Users |-> 0]
  /\ pushRecv' = {}
  /\ board' = NoBoard
  /\ UNCHANGED presenceVars
  /\ UNCHANGED apiVars

NotifySteps ==
  \/ GetUsersReturn
  \/ GetUsersThrow
  \/ LoopEnd
  \/ LoopPush
  \/ LoopPushThrow
  \/ LoopLookup
  \/ OfflineReturns
  \/ OfflineThrows
  \/ SendOk
  \/ SendFails

\* ----------------------------------------------- notifier specification
InitNotify == InitWith(Users)

NotifyNext ==
  \/ \E c \in Conns, u \in Users : Connect(c, u, MaxPendingNotify)
  \/ \E c \in Conns : Disconnect(c, MaxPendingNotify)
  \/ \E w \in Writes : ApplyWrite(w)
  \/ \E a \in Users, p \in Projects : TicketMutation(a, p)
  \/ NotifySteps
  \/ SendHangs
  \/ RequestEnd

SpecNotify == InitNotify /\ [][NotifyNext]_vars

\* the event loop resumes every continuation whose await has settled
FairSpecNotify == SpecNotify /\ WF_vars(NotifySteps)

\* -------------------------------------------------- board specification
\* sockets join and leave project rooms while ticket requests run
BoardNext ==
  \/ \E c \in Conns, u \in Users : Connect(c, u, MaxPendingNotify)
  \/ \E c \in Conns : Disconnect(c, MaxPendingNotify)
  \/ \E c \in Conns, p \in Projects : JoinProject(c, p)
  \/ \E c \in Conns, p \in Projects : LeaveProject(c, p)
  \/ \E w \in Writes : ApplyWrite(w)
  \/ \E a \in Users, p \in Projects : TicketMutation(a, p)
  \/ NotifySteps
  \/ RequestEnd

SpecBoard == InitPresence /\ [][BoardNext]_vars

\* --------------------------------------------------------- REST requests
\* bearer tokens a request may carry: one signed for each identity and one
\* that does not verify
BadToken == "bad"
Tokens == Users \cup {BadToken}

\* variant: the payload decoded without the signature being verified: a forged
\* token is taken for the identity it names
verifyTokenUnverified(token) == IF token \in Users THEN token ELSE "u1"

\* verifyTokenSafe: the decoded payload's userId, null for an invalid token
verifyTokenSafe(token) == IF token \in Users THEN token ELSE NoUser

\* updateLastSeenMiddleware: for the req.user it finds it issues
\* updateUserLastSeen without await; it calls next() in every case
updateLastSeenMiddleware(req) ==
  IF req.user # NoUser
    THEN [req EXCEPT !.issued = @ (+) SetToBag({req.user})]
    ELSE req

\* authenticate: 401 without a valid token, otherwise req.user = decoded
authenticate(req, token) ==
  IF verifyTokenSafe(token) = NoUser
    THEN [req EXCEPT !.status = "401"]
    ELSE [req EXCEPT !.user = verifyTokenSafe(token)]

\* the middleware of a protected route in the order of registration:
\* app.use(updateLastSeenMiddleware) comes before app.use('/api/...', router),
\* and every router starts with authenticate
ProtectedChain == <<"updateLastSeen", "authenticate">>

Middleware(name, req, token) ==
  IF name = "updateLastSeen" THEN updateLastSeenMiddleware(req)
                             ELSE authenticate(req, token)

\* express calls the middleware one after the other until one of them
\* answers instead of calling next()
RECURSIVE RunChain(_, _, _)
RunChain(chain, req, token) ==
  IF chain = <<>> \/ req.status # "next"
    THEN req
    ELSE RunChain(Tail(chain), Middleware(Head(chain), req, token), token)

\* a request to a protected route comes in with a bearer token; express
\* creates req without a user and runs the chain, at the end of which the
\* route handler is entered
RestRequest(token) ==
  /\ ~Busy
  /\ LET fresh == [user |-> NoUser, issued |-> EmptyBag, status |-> "next"]
         req == RunChain(ProtectedChain, fresh, token) IN
       /\ pendingLastSeen' = pendingLastSeen (+) req.issued
       /\ lastReq' = [user |-> req.user, at |-> now,
                      status |-> IF req.status = "next" THEN "handler"
                                                        ELSE req.status]
  /\ UNCHANGED <<tickets, activities, treq, listing, clientTickets>>
  /\ UNCHANGED <<projects, mutations, handshake, extVars>>
  /\ UNCHANGED presenceVars
  /\ UNCHANGED notifyVars

\* UPDATE users SET last_seen = CURRENT_TIMESTAMP WHERE id = $1
updateUserLastSeen(table, userId, ts) ==
  [u \in DOMAIN table |->
     IF u = userId THEN [table[u] EXCEPT !.last_seen = ts] ELSE table[u]]

\* the database executes an updateUserLastSeen statement in flight; the
\* chain above never issues one, so the step is enabled in no reachable state
\* and RestNext does not list it
ApplyLastSeen(u) ==
  /\ BagIn(u, pendingLastSeen)
  /\ users' = updateUserLastSeen(users, u, now)
  /\ pendingLastSeen' = pendingLastSeen (-) SetToBag({u})
  /\ UNCHANGED <<now, sockUser, sockRooms, pendingWrites, offlineResult>>
  /\ UNCHANGED <<lastReq, tickets, activities, treq, listing, clientTickets>>
  /\ UNCHANGED <<projects, mutations, handshake, extVars>>
  /\ UNCHANGED notifyVars

\* ----------------------------------------------------- socket handshake
\* socket.handshake.auth.token values: one signed for each registered
\* identity, one that does not verify, and none
HandshakeTokens == PresenceUsers \cup {BadToken, "undefined"}

\* io.use: the handshake carries no token or one that does not verify, and
\* next(new Error(...)) refuses the connection; otherwise socket.data.user is
\* the decoded payload and the connection handler runs
Handshake(c, token, cap) ==
  /\ sockUser[c] = NoUser
  /\ LET decoded == IF token = "undefined" THEN NoUser
                                           ELSE verifyTokenSafe(token) IN
       IF decoded = NoUser
         THEN /\ ~Busy
              /\ handshake' = [handshake EXCEPT ![c] = token]
              /\ UNCHANGED presenceVars
              /\ UNCHANGED notifyVars
              /\ UNCHANGED storeVars
         ELSE /\ OnConnection(c, decoded, cap)
              /\ handshake' = [handshake EXCEPT ![c] = token]

\* socket.on('ticket-created' | 'ticket-updated' | 'ticket-moved' |
\* 'ticket-deleted'): the listener of an admitted socket passes the event on
\* with socket.to(`project-${projectId}`)
BoardEvents == {"ticket-created", "ticket-updated", "ticket-moved",
                "ticket-deleted"}
Relay(c, event, p) ==
  /\ ~Busy
  /\ sockUser[c] # NoUser
  /\ relayed' = [event |-> event, project |-> p, from |-> c,
                 recv |-> SocketsIn(JoinedProjectRoom(p)) \ {c}]
  /\ UNCHANGED presenceVars
  /\ UNCHANGED notifyVars
  /\ UNCHANGED <<lastReq, pendingLastSeen, tickets, activities, treq, listing,
                 clientTickets, projects, mutations, handshake>>
  /\ UNCHANGED <<clientVars, authVars>>

\* sockets shake hands, join rooms, send board events and close
SocketNext ==
  \/ \E c \in Conns, token \in HandshakeTokens : Handshake(c, token, MaxPending)
  \/ \E c \in Conns : Disconnect(c, MaxPending)
  \/ \E c \in Conns, p \in Projects : JoinProject(c, p)
  \/ \E c \in Conns, p \in Projects : LeaveProject(c, p)
  \/ \E c \in Conns, e \in BoardEvents, p \in Projects : Relay(c, e, p)
  \/ \E w \in Writes : ApplyWrite(w)

SpecSocket == InitPresence /\ [][SocketNext]_vars

\* --------------------------------------------------- REST specification
\* REST requests arrive while sockets come and go
RestNext ==
  \/ \E c \in Conns, u \in Users : Connect(c, u, MaxPending)
  \/ \E c \in Conns : Disconnect(c, MaxPending)
  \/ \E w \in Writes : ApplyWrite(w)
  \/ Tick
  \/ \E token \in Tokens : RestRequest(token)

SpecRest == InitPresence /\ [][RestNext]_vars

\* the database executes every statement it was sent
FairSpecRest == SpecRest /\ WF_vars(\E w \in Writes : ApplyWrite(w))

\* -------------------------------------------------------------- tickets
\* enum TicketStatus; as VARCHAR values they sort DONE < IN_PROGRESS < TODO
Lanes == {"TODO", "IN_PROGRESS", "DONE"}
StatusRank == [DONE |-> 1, IN_PROGRESS |-> 2, TODO |-> 3]
\* CONFIG.DEFAULT_TICKET_ORDER_INCREMENT
DEFAULT_TICKET_ORDER_INCREMENT == 1000
\* tickets.id
TicketIds == 1..MaxTickets

\* rows of  ... FROM tickets WHERE project_id = $1 AND status = $2
LaneRows(table, projectId, status) ==
  {t \in DOMAIN table :
     table[t].project_id = projectId /\ table[t].status = status}

MaxOf(S) == CHOOSE m \in S : \A n \in S : n <= m

\* variant: the status filter left out of the WHERE clause
getMaxOrderIndexAnyStatus(table, projectId, status) ==
  LET rows == {t \in DOMAIN table : table[t].project_id = projectId} IN
    IF rows = {} THEN 0 ELSE MaxOf({table[t].order_index : t \in rows})

\* SELECT COALESCE(MAX(order_index), 0) FROM tickets
\*   WHERE project_id = $1 AND status = $2
getMaxOrderIndex(table, projectId, status) ==
  LET rows == LaneRows(table, projectId, status) IN
    IF rows = {} THEN 0 ELSE MaxOf({table[t].order_index : t \in rows})

\* created_at DEFAULT NOW(): later than that of every row inserted before
NextCreatedAt(table) ==
  IF DOMAIN table = {} THEN 1
                       ELSE 1 + MaxOf({table[t].created_at : t \in DOMAIN table})

\* variant: the INSERT skipped when the lane has a row with the same
\* order_index (a unique index with ON CONFLICT DO NOTHING)
createTicketQueryUnique(table, id, projectId, status, orderIndex) ==
  IF \E t \in LaneRows(table, projectId, status) :
       table[t].order_index = orderIndex
    THEN table
    ELSE [t \in DOMAIN table \cup {id} |->
            IF t = id THEN [project_id |-> projectId, status |-> status,
                            order_index |-> orderIndex,
                            created_at |-> NextCreatedAt(table)]
                      ELSE table[t]]

\* INSERT INTO tickets (...) VALUES (...) RETURNING *
createTicketQuery(table, id, projectId, status, orderIndex) ==
  [t \in DOMAIN table \cup {id} |->
     IF t = id THEN [project_id |-> projectId, status |-> status,
                     order_index |-> orderIndex,
                     created_at |-> NextCreatedAt(table)]
               ELSE table[t]]

\* rows of  SELECT ... FROM tickets t WHERE t.id = $1
getTicketById(table, id) == {t \in DOMAIN table : t = id}

\* UPDATE tickets SET <every key of updates> WHERE id = $n; without keys
\* the statement is not sent
updateTicketQuery(table, id, updates) ==
  [t \in DOMAIN table |->
     IF t = id
       THEN [f \in DOMAIN table[t] |->
               IF f \in DOMAIN updates THEN updates[f] ELSE table[t][f]]
       ELSE table[t]]

\* DELETE FROM tickets WHERE id = $1
deleteTicketQuery(table, id) == [t \in DOMAIN table \ {id} |-> table[t]]

\* activities.ticket_id REFERENCES tickets(id) ON DELETE CASCADE: the rows
\* that refer to a deleted ticket go with it
cascadeTicket(log, ticketId) ==
  SelectSeq(log, LAMBDA a : a.ticket_id # ticketId)

\* INSERT INTO projects (name, description, created_by) ... RETURNING *
createProjectQuery(projs, id, name) ==
  [p \in DOMAIN projs \cup {id} |-> IF p = id THEN [name |-> name] ELSE projs[p]]

\* rows of  SELECT p.* ... FROM projects p ... WHERE p.id = $1
getProjectById(projs, projectId) == {p \in DOMAIN projs : p = projectId}

\* UPDATE projects SET name = $1 WHERE id = $2; without a name the statement
\* is not sent
updateProjectQuery(projs, projectId, name) ==
  [p \in DOMAIN projs |->
     IF p = projectId /\ name # "undefined" THEN [name |-> name] ELSE projs[p]]

\* DELETE FROM projects WHERE id = $1
deleteProjectQuery(projs, projectId) ==
  [p \in DOMAIN projs \ {projectId} |-> projs[p]]

\* tickets.project_id REFERENCES projects(id) ON DELETE CASCADE
cascadeProjectTickets(table, projectId) ==
  [t \in {x \in DOMAIN table : table[x].project_id # projectId} |-> table[t]]

\* activities.project_id REFERENCES projects(id) ON DELETE CASCADE
cascadeProject(log, projectId) ==
  SelectSeq(log, LAMBDA a : a.project_id # projectId)

\* activities.type CHECK (...) of the schema
ActivityTypes == {"TICKET_CREATED", "TICKET_UPDATED", "TICKET_MOVED",
                  "TICKET_ASSIGNED", "PROJECT_CREATED"}
\* the ticket_id of an activity that is about a project: NULL
NoTicket == 0

\* INSERT INTO activities: the type has to pass the CHECK, project_id has to
\* reference a row of projects and ticket_id, unless NULL, a row of tickets
ActivityInsertable(table, projs, type, projectId, ticketId) ==
  /\ type \in ActivityTypes
  /\ projectId \in DOMAIN projs
  /\ ticketId # NoTicket => ticketId \in DOMAIN table

\* createActivity
createActivity(log, projectId, userId, type, ticketId) ==
  Append(log, [project_id |-> projectId, user_id |-> userId, type |-> type,
               ticket_id |-> ticketId])

\* ------------------------------------------------------ ticket requests
\* a key the request body does not carry
Undefined == "undefined"
\* status values a body may carry: the lanes and one that is not a lane
StatusInputs == Lanes \cup {"ARCHIVED"}
\* order_index values a body may carry: a negative one, what the board sends
\* for an empty column, and the index of a first ticket
OrderIndexInputs == {-1, 0, DEFAULT_TICKET_ORDER_INCREMENT}
MoveBodies == [status : StatusInputs, order_index : OrderIndexInputs]
UpdateBodies == [status : StatusInputs \cup {Undefined}]

\* variant: a schema that lets every status through
moveTicketSchemaAnyStatus(body) == body.order_index >= 0

\* moveTicketSchema: status a TicketStatus, order_index an integer >= 0
moveTicketSchema(body) == body.status \in Lanes /\ body.order_index >= 0

\* updateTicketSchema: status, when given, a TicketStatus
updateTicketSchema(body) == body.status # Undefined => body.status \in Lanes

\* validateBody: next() when schema.parse passes, 400 otherwise
validateBody(passes) == IF passes THEN "next" ELSE "400"

\* Object.entries(updates) with the undefined values left out
DefinedUpdates(body) ==
  [k \in {f \in DOMAIN body : f = "status" => body[f] # Undefined} |-> body[k]]

\* ActivityType the handler of an operation logs
ActivityTypeOf == [create |-> "TICKET_CREATED", update |-> "TICKET_UPDATED",
                   move |-> "TICKET_MOVED", delete |-> "TICKET_DELETED",
                   createProject |-> "PROJECT_CREATED",
                   updateProject |-> "PROJECT_UPDATED",
                   deleteProject |-> "PROJECT_DELETED"]

\* the slot takes a new request when the one before it has been answered
SlotFree(r) == treq[r].pc \in {"idle", "done"}
\* INSERT statements the running createTicket handlers will still send
InsertsAhead == Cardinality({r \in Slots : treq[r].pc \in {"getMax", "insert"}})
MoreRequests == mutations < MaxMutations

Answer(r, code) == [treq EXCEPT ![r].pc = "done", ![r].answer = code]

\* POST /api/tickets: the body passes createTicketSchema; createTicket awaits
\* getMaxOrderIndex(project_id, TODO)
CreateTicket(r, u, p) ==
  /\ SlotFree(r)
  /\ MoreRequests
  /\ u \in DOMAIN users
  /\ Cardinality(DOMAIN tickets) + InsertsAhead < MaxTickets
  /\ treq' = [treq EXCEPT ![r] =
                [IdleRequest EXCEPT !.op = "create", !.pc = "getMax",
                                    !.user = u, !.project_id = p]]
  /\ UNCHANGED <<tickets, activities, listing, clientTickets>>
  /\ UNCHANGED <<restVars, presenceVars, notifyVars, projects, mutations, handshake, extVars>>

\* getMaxOrderIndex returns; createTicket awaits the INSERT
GetMaxReturns(r) ==
  /\ treq[r].pc = "getMax"
  /\ treq' = [treq EXCEPT
                ![r].maxOrder = getMaxOrderIndex(tickets, treq[r].project_id, "TODO"),
                ![r].pc = "insert"]
  /\ UNCHANGED <<tickets, activities, listing, clientTickets>>
  /\ UNCHANGED <<restVars, presenceVars, notifyVars, projects, mutations, handshake, extVars>>

\* uuid_generate_v4(): an id no row has; ids being interchangeable, the first
\* one that is free
FreshId(table) == CHOOSE id \in TicketIds \ DOMAIN table :
                    \A other \in TicketIds \ DOMAIN table : id <= other

\* the INSERT returns the row under a fresh id; createTicket awaits
\* createActivity
InsertReturns(r, id) ==
  /\ treq[r].pc = "insert"
  /\ treq[r].project_id \in DOMAIN projects
  /\ id \notin DOMAIN tickets
  /\ id = FreshId(tickets)
  /\ tickets' = createTicketQuery(tickets, id, treq[r].project_id, "TODO",
                  treq[r].maxOrder + DEFAULT_TICKET_ORDER_INCREMENT)
  /\ treq' = [treq EXCEPT ![r].id = id, ![r].pc = "activity"]
  /\ mutations' = mutations + 1
  /\ UNCHANGED <<activities, listing, clientTickets>>
  /\ UNCHANGED <<restVars, presenceVars, notifyVars, projects, handshake, extVars>>

\* PATCH /api/tickets/:id/move: validateBody(moveTicketSchema), then
\* moveTicket awaits getTicketById
MoveTicket(r, u, id, body) ==
  /\ SlotFree(r)
  /\ MoreRequests
  /\ u \in DOMAIN users
  /\ LET req == [IdleRequest EXCEPT !.op = "move", !.user = u, !.id = id,
                                    !.body = body] IN
       treq' = [treq EXCEPT ![r] =
                  IF validateBody(moveTicketSchema(body)) = "next"
                    THEN [req EXCEPT !.pc = "getCurrent"]
                    ELSE [req EXCEPT !.pc = "done", !.answer = 400]]
  /\ UNCHANGED <<tickets, activities, listing, clientTickets>>
  /\ UNCHANGED <<restVars, presenceVars, notifyVars, projects, mutations, handshake, extVars>>

\* PUT /api/tickets/:id: validateBody(updateTicketSchema), then updateTicket
\* awaits the UPDATE
UpdateTicket(r, u, id, body) ==
  /\ SlotFree(r)
  /\ MoreRequests
  /\ u \in DOMAIN users
  /\ LET req == [IdleRequest EXCEPT !.op = "update", !.user = u, !.id = id,
                                    !.body = body] IN
       treq' = [treq EXCEPT ![r] =
                  IF validateBody(updateTicketSchema(body)) = "next"
                    THEN [req EXCEPT !.pc = "update"]
                    ELSE [req EXCEPT !.pc = "done", !.answer = 400]]
  /\ UNCHANGED <<tickets, activities, listing, clientTickets>>
  /\ UNCHANGED <<restVars, presenceVars, notifyVars, projects, mutations, handshake, extVars>>

\* DELETE /api/tickets/:id: deleteTicket awaits getTicketById
DeleteTicket(r, u, id) ==
  /\ SlotFree(r)
  /\ MoreRequests
  /\ u \in DOMAIN users
  /\ treq' = [treq EXCEPT ![r] =
                [IdleRequest EXCEPT !.op = "delete", !.pc = "getCurrent",
                                    !.user = u, !.id = id]]
  /\ UNCHANGED <<tickets, activities, listing, clientTickets>>
  /\ UNCHANGED <<restVars, presenceVars, notifyVars, projects, mutations, handshake, extVars>>

\* getTicketById returns in moveTicket or deleteTicket: 404 without a row,
\* otherwise the handler keeps the row and awaits its UPDATE or DELETE
GetCurrentReturns(r) ==
  /\ treq[r].pc = "getCurrent"
  /\ treq' = IF getTicketById(tickets, treq[r].id) = {}
               THEN Answer(r, 404)
               ELSE [treq EXCEPT
                       ![r].current = tickets[treq[r].id].status,
                       ![r].project_id = tickets[treq[r].id].project_id,
                       ![r].pc = IF treq[r].op = "move" THEN "update"
                                                        ELSE "delete"]
  /\ UNCHANGED <<tickets, activities, listing, clientTickets>>
  /\ UNCHANGED <<restVars, presenceVars, notifyVars, projects, mutations, handshake, extVars>>

\* updateTicketQuery returns in updateTicket or moveTicket: 404 without a
\* row, otherwise the keys of the body are written as they came and the
\* handler awaits createActivity
UpdateReturns(r) ==
  /\ treq[r].pc = "update"
  /\ IF getTicketById(tickets, treq[r].id) = {}
       THEN /\ treq' = Answer(r, 404)
            /\ UNCHANGED <<tickets, mutations>>
       ELSE /\ tickets' = updateTicketQuery(tickets, treq[r].id,
                                            DefinedUpdates(treq[r].body))
            /\ treq' = [treq EXCEPT
                          ![r].project_id = tickets[treq[r].id].project_id,
                          ![r].pc = "activity"]
            /\ mutations' = mutations + 1
  /\ UNCHANGED <<activities, listing, clientTickets>>
  /\ UNCHANGED <<restVars, presenceVars, notifyVars, projects, handshake, extVars>>

\* deleteTicketQuery returns: 404 when no row was deleted, otherwise the
\* row is gone, with the activities that refer to it, and the handler awaits
\* createActivity
DeleteReturns(r) ==
  /\ treq[r].pc = "delete"
  /\ IF getTicketById(tickets, treq[r].id) = {}
       THEN /\ treq' = Answer(r, 404)
            /\ UNCHANGED <<tickets, activities, mutations>>
       ELSE /\ tickets' = deleteTicketQuery(tickets, treq[r].id)
            /\ activities' = cascadeTicket(activities, treq[r].id)
            /\ treq' = [treq EXCEPT ![r].pc = "activity"]
            /\ mutations' = mutations + 1
  /\ UNCHANGED <<listing, clientTickets>>
  /\ UNCHANGED <<restVars, presenceVars, notifyVars, projects, handshake, extVars>>

\* createActivity returns; the handler emits the board event and awaits
\* notifyAllUsers
ActivityReturns(r) ==
  /\ treq[r].pc = "activity"
  /\ ActivityInsertable(tickets, projects, ActivityTypeOf[treq[r].op],
                        treq[r].project_id, treq[r].id)
  /\ activities' = createActivity(activities, treq[r].project_id, treq[r].user,
                                  ActivityTypeOf[treq[r].op], treq[r].id)
  /\ treq' = [treq EXCEPT ![r].pc = "notify"]
  /\ UNCHANGED <<tickets, listing, clientTickets>>
  /\ UNCHANGED <<restVars, presenceVars, notifyVars, projects, mutations, handshake, extVars>>

\* the INSERT INTO activities is refused; the catch of the handler answers 500
ActivityThrows(r) ==
  /\ treq[r].pc = "activity"
  /\ ~ActivityInsertable(tickets, projects, ActivityTypeOf[treq[r].op],
                        treq[r].project_id, treq[r].id)
  /\ treq' = Answer(r, 500)
  /\ UNCHANGED <<tickets, activities, listing, clientTickets>>
  /\ UNCHANGED <<restVars, presenceVars, notifyVars, projects, mutations, handshake, extVars>>

\* notifyAllUsers returns; the handler answers 201 for a creation and 200
\* otherwise
NotifyReturns(r) ==
  /\ treq[r].pc = "notify"
  /\ treq' = Answer(r, IF treq[r].op \in {"create", "createProject"}
                          THEN 201 ELSE 200)
  /\ UNCHANGED <<tickets, activities, listing, clientTickets>>
  /\ UNCHANGED <<restVars, presenceVars, notifyVars, projects, mutations, handshake, extVars>>

\* ----------------------------------------------------- project requests
\* projects.name values a body may carry
ProjectNames == {"a", "b"}

\* the INSERT INTO tickets is refused, project_id referencing no row of
\* projects; the catch of createTicket answers 500
InsertThrows(r) ==
  /\ treq[r].pc = "insert"
  /\ treq[r].project_id \notin DOMAIN projects
  /\ treq' = Answer(r, 500)
  /\ UNCHANGED <<tickets, activities, listing, clientTickets>>
  /\ UNCHANGED <<restVars, presenceVars, notifyVars, projects, mutations, handshake, extVars>>

\* POST /api/projects: the body passes createProjectSchema; createProject
\* awaits the INSERT
CreateProject(r, u, name) ==
  /\ SlotFree(r)
  /\ MoreRequests
  /\ u \in DOMAIN users
  /\ DOMAIN projects # AllProjects
  /\ treq' = [treq EXCEPT ![r] =
                [IdleRequest EXCEPT !.op = "createProject",
                                    !.pc = "insertProject", !.user = u,
                                    !.body = [name |-> name]]]
  /\ UNCHANGED <<tickets, activities, listing, clientTickets>>
  /\ UNCHANGED <<restVars, presenceVars, notifyVars, projects, mutations, handshake, extVars>>

\* the INSERT returns the row under a fresh id; createProject awaits
\* createActivity
ProjectInsertReturns(r, id) ==
  /\ treq[r].pc = "insertProject"
  /\ id \notin DOMAIN projects
  /\ projects' = createProjectQuery(projects, id, treq[r].body.name)
  /\ treq' = [treq EXCEPT ![r].project_id = id, ![r].pc = "activity"]
  /\ mutations' = mutations + 1
  /\ UNCHANGED <<tickets, activities, listing, clientTickets>>
  /\ UNCHANGED <<restVars, presenceVars, notifyVars, handshake, extVars>>

\* PUT /api/projects/:id: the body passes updateProjectSchema, with a name
\* or without one; updateProject awaits updateProjectQuery
UpdateProject(r, u, p, name) ==
  /\ SlotFree(r)
  /\ MoreRequests
  /\ u \in DOMAIN users
  /\ treq' = [treq EXCEPT ![r] =
                [IdleRequest EXCEPT !.op = "updateProject",
                                    !.pc = "updateProject", !.user = u,
                                    !.project_id = p,
                                    !.body = [name |-> name]]]
  /\ UNCHANGED <<tickets, activities, listing, clientTickets>>
  /\ UNCHANGED <<restVars, presenceVars, notifyVars, projects, mutations, handshake, extVars>>

\* updateProjectQuery returns: 404 without a row, otherwise the handler
\* awaits createActivity
UpdateProjectReturns(r) ==
  /\ treq[r].pc = "updateProject"
  /\ IF getProjectById(projects, treq[r].project_id) = {}
       THEN /\ treq' = Answer(r, 404)
            /\ UNCHANGED <<projects, mutations>>
       ELSE /\ projects' = updateProjectQuery(projects, treq[r].project_id,
                                              treq[r].body.name)
            /\ treq' = [treq EXCEPT ![r].pc = "activity"]
            /\ mutations' = mutations + 1
  /\ UNCHANGED <<tickets, activities, listing, clientTickets>>
  /\ UNCHANGED <<restVars, presenceVars, notifyVars, handshake, extVars>>

\* DELETE /api/projects/:id: deleteProject awaits getProjectById
DeleteProject(r, u, p) ==
  /\ SlotFree(r)
  /\ MoreRequests
  /\ u \in DOMAIN users
  /\ treq' = [treq EXCEPT ![r] =
                [IdleRequest EXCEPT !.op = "deleteProject",
                                    !.pc = "getProject", !.user = u,
                                    !.project_id = p]]
  /\ UNCHANGED <<tickets, activities, listing, clientTickets>>
  /\ UNCHANGED <<restVars, presenceVars, notifyVars, projects, mutations, handshake, extVars>>

\* getProjectById returns in deleteProject: 404 without a row, otherwise the
\* handler awaits the DELETE
GetProjectReturns(r) ==
  /\ treq[r].pc = "getProject"
  /\ treq' = IF getProjectById(projects, treq[r].project_id) = {}
               THEN Answer(r, 404)
               ELSE [treq EXCEPT ![r].pc = "deleteProject"]
  /\ UNCHANGED <<tickets, activities, listing, clientTickets>>
  /\ UNCHANGED <<restVars, presenceVars, notifyVars, projects, mutations, handshake, extVars>>

\* deleteProjectQuery returns: 404 when no row was deleted, otherwise the
\* project is gone, with its tickets and with the activities that refer to
\* it or to them, and the handler awaits createActivity
DeleteProjectReturns(r) ==
  /\ treq[r].pc = "deleteProject"
  /\ IF getProjectById(projects, treq[r].project_id) = {}
       THEN /\ treq' = Answer(r, 404)
            /\ UNCHANGED <<projects, tickets, activities, mutations>>
       ELSE /\ projects' = deleteProjectQuery(projects, treq[r].project_id)
            /\ tickets' = cascadeProjectTickets(tickets, treq[r].project_id)
            /\ activities' = cascadeProject(activities, treq[r].project_id)
            /\ treq' = [treq EXCEPT ![r].pc = "activity"]
            /\ mutations' = mutations + 1
  /\ UNCHANGED <<listing, clientTickets>>
  /\ UNCHANGED <<restVars, presenceVars, notifyVars, handshake, extVars>>

\* ------------------------------------------------ ordering specification
\* ticket requests handled one at a time: the next one comes in when the one
\* before it has been answered
OneSlot == {"r1"}

OrderNext ==
  \/ \E r \in OneSlot, u \in Users, p \in AllProjects : CreateTicket(r, u, p)
  \/ \E r \in OneSlot, u \in Users, id \in TicketIds, body \in MoveBodies :
       MoveTicket(r, u, id, body)
  \/ \E r \in OneSlot, u \in Users, id \in TicketIds, body \in UpdateBodies :
       UpdateTicket(r, u, id, body)
  \/ \E r \in OneSlot, u \in Users, id \in TicketIds : DeleteTicket(r, u, id)
  \/ \E r \in OneSlot : GetMaxReturns(r)
  \/ \E r \in OneSlot, id \in TicketIds : InsertReturns(r, id)
  \/ \E r \in OneSlot : GetCurrentReturns(r)
  \/ \E r \in OneSlot : UpdateReturns(r)
  \/ \E r \in OneSlot : DeleteReturns(r)
  \/ \E r \in OneSlot : ActivityReturns(r)
  \/ \E r \in OneSlot : ActivityThrows(r)
  \/ \E r \in OneSlot : NotifyReturns(r)

\* one registered identity sends the requests
InitOrder == InitWith({"u1"})

SpecOrder == InitOrder /\ [][OrderNext]_vars

\* ------------------------------------------------------ the board client
\* the event each client handler sends after its REST call
EventOf == [create |-> "ticket-created", update |-> "ticket-updated",
            move |-> "ticket-moved", delete |-> "ticket-deleted"]

\* CreateTicketModal sends 'ticket-created' when the store returned the new
\* ticket; EditTicketModal.handleSubmit, handleDelete and
\* KanbanBoard.handleDragEnd await the store action, which catches every
\* failure, and send their event whatever the answer was
ClientEmits(op, answer) == IF op = "create" THEN answer = 201 ELSE TRUE

\* the REST call of the browser that owns socket c has been answered; its
\* handler goes on, socketService emits the event on c and the server's
\* listener passes it on to the project room
ClientRelay(r, c, p) ==
  /\ ~Busy
  /\ treq[r].pc = "done"
  /\ treq[r].op \in DOMAIN EventOf
  /\ sockUser[c] = treq[r].user
  /\ ClientEmits(treq[r].op, treq[r].answer)
  /\ relayed' = [event |-> EventOf[treq[r].op], project |-> p, from |-> c,
                 recv |-> SocketsIn(JoinedProjectRoom(p)) \ {c}]
  /\ treq' = [treq EXCEPT ![r].pc = "idle"]
  /\ UNCHANGED <<tickets, activities, listing, clientTickets>>
  /\ UNCHANGED <<restVars, presenceVars, notifyVars, projects, mutations, handshake>>
  /\ UNCHANGED <<clientVars, authVars>>

\* handleDragEnd sends the lane the ticket was dropped on and the number of
\* tickets the store has in it: none or one
DragBodies == [status : Lanes, order_index : {0, 1}]

\* browsers with an open socket create, drag and delete tickets, one request
\* at a time, and relay board events
ClientNext ==
  \/ \E c \in Conns, u \in Users : Connect(c, u, MaxPendingNotify)
  \/ \E w \in Writes : ApplyWrite(w)
  \/ \E c \in Conns, p \in Projects : JoinProject(c, p)
  \/ \E r \in OneSlot, c \in Conns, p \in Projects : ClientRelay(r, c, p)
  \/ \E r \in OneSlot, u \in Users, p \in Projects : CreateTicket(r, u, p)
  \/ \E r \in OneSlot, u \in Users, id \in TicketIds, body \in DragBodies :
       MoveTicket(r, u, id, body)
  \/ \E r \in OneSlot, u \in Users, id \in TicketIds : DeleteTicket(r, u, id)
  \/ \E r \in OneSlot : GetMaxReturns(r)
  \/ \E r \in OneSlot, id \in TicketIds : InsertReturns(r, id)
  \/ \E r \in OneSlot : GetCurrentReturns(r)
  \/ \E r \in OneSlot : UpdateReturns(r)
  \/ \E r \in OneSlot : DeleteReturns(r)
  \/ \E r \in OneSlot : ActivityReturns(r)
  \/ \E r \in OneSlot : ActivityThrows(r)
  \/ \E r \in OneSlot : NotifyReturns(r)

SpecClient == InitOrder /\ [][ClientNext]_vars

\* --------------------------------------------------- the socket service
\* connect: if (this.socket && this.isConnected) return this.socket
HasSocket(sock, connected) == sock # Null /\ connected

\* SocketService.connect(token), called by authStore.login, by
\* onRehydrateStorage and by the effect of AppLayout: unless it returns
\* the socket it has, it makes a new one with io(), which starts to connect
\* (and connects again by itself when it is dropped), and keeps it in
\* this.socket; the socket it had is neither closed nor looked at
ClientConnect(k, token) ==
  /\ ~HasSocket(socket, isConnected)
  /\ clientSockets[k] = Unused
  /\ \A j \in ClientSocketIds : j < k => clientSockets[j] # Unused
  /\ clientSockets' = [clientSockets EXCEPT
                         ![k] = [state |-> "connecting", token |-> token]]
  /\ socket' = k
  /\ UNCHANGED isConnected
  /\ UNCHANGED <<restVars, presenceVars, notifyVars, orderVars>>
  /\ UNCHANGED <<projects, mutations, handshake, relayed, authVars>>

\* socket.on('connect') of any socket the service made: the server admitted
\* its handshake
OnConnect(k) ==
  /\ clientSockets[k].state = "connecting"
  /\ verifyTokenSafe(clientSockets[k].token) # NoUser
  /\ clientSockets' = [clientSockets EXCEPT ![k].state = "open"]
  /\ isConnected' = TRUE
  /\ UNCHANGED socket
  /\ UNCHANGED <<restVars, presenceVars, notifyVars, orderVars>>
  /\ UNCHANGED <<projects, mutations, handshake, relayed, authVars>>

\* socket.on('disconnect') of any socket the service made, the transport
\* being lost; reconnection: true lets the socket connect again
OnDisconnect(k) ==
  /\ clientSockets[k].state = "open"
  /\ clientSockets' = [clientSockets EXCEPT ![k].state = "connecting"]
  /\ isConnected' = FALSE
  /\ UNCHANGED socket
  /\ UNCHANGED <<restVars, presenceVars, notifyVars, orderVars>>
  /\ UNCHANGED <<projects, mutations, handshake, relayed, authVars>>

\* socket.on('connect_error') of any socket the service made: the server
\* refused its handshake; the handler logs the error, and a socket refused by
\* the server does not try again
OnConnectError(k) ==
  /\ clientSockets[k].state = "connecting"
  /\ verifyTokenSafe(clientSockets[k].token) = NoUser
  /\ clientSockets' = [clientSockets EXCEPT ![k].state = "refused"]
  /\ UNCHANGED <<socket, isConnected>>
  /\ UNCHANGED <<restVars, presenceVars, notifyVars, orderVars>>
  /\ UNCHANGED <<projects, mutations, handshake, relayed, authVars>>

\* SocketService.disconnect(), called by authStore.logout: the socket in
\* this.socket is closed for good
ClientDisconnect ==
  /\ socket # Null
  /\ clientSockets' = [clientSockets EXCEPT ![socket].state = "closed"]
  /\ socket' = Null
  /\ isConnected' = FALSE
  /\ UNCHANGED <<restVars, presenceVars, notifyVars, orderVars>>
  /\ UNCHANGED <<projects, mutations, handshake, relayed, authVars>>

ServiceNext ==
  \/ \E k \in ClientSocketIds, token \in {"u1", BadToken} : ClientConnect(k, token)
  \/ \E k \in ClientSocketIds : OnConnect(k)
  \/ \E k \in ClientSocketIds : OnConnectError(k)
  \/ \E k \in ClientSocketIds : OnDisconnect(k)
  \/ ClientDisconnect

SpecService == InitPresence /\ [][ServiceNext]_vars

\* ------------------------------------------------------------ OTP login
\* CONFIG.OTP_EXPIRY_MINUTES
OTP_EXPIRY_MINUTES == 10
\* the clock moves by half the lifetime of an OTP
OtpTickStep == (OTP_EXPIRY_MINUTES * 60) \div 2
\* addresses and codes of the requests
Emails == {"a@x"}
Codes == {"111111", "222222"}

\* storeOTP: INSERT INTO otps (email, otp, expires_at), expires_at being
\* OTP_EXPIRY_MINUTES from now
storeOTP(table, email, otp, ts) ==
  Append(table, [email |-> email, otp |-> otp,
                 expires_at |-> ts + OTP_EXPIRY_MINUTES * 60,
                 created_at |-> ts, deleted |-> FALSE, verified |-> 0])

\* rows of  SELECT * FROM otps WHERE email = $1 AND otp = $2
\*            AND expires_at > NOW()
MatchingOtps(table, email, otp, ts) ==
  {i \in 1..Len(table) :
     /\ ~table[i].deleted
     /\ table[i].email = email
     /\ table[i].otp = otp
     /\ table[i].expires_at > ts}

\* ... ORDER BY created_at DESC LIMIT 1: the rows one of which comes first
LatestOtps(table, rows) ==
  {i \in rows : \A j \in rows : table[j].created_at <= table[i].created_at}

\* POST /api/auth/send-otp: sendOTP stores a generated code for the address
SendOTP(email, otp) ==
  /\ Len(otps) < MaxOtps
  /\ otps' = storeOTP(otps, email, otp, now)
  /\ UNCHANGED <<vreq, relayed, clientVars, handshake>>
  /\ UNCHANGED <<restVars, presenceVars, notifyVars, orderVars>>
  /\ UNCHANGED <<projects, mutations>>

\* POST /api/auth/verify-otp: verifyOTPAndLogin calls verifyOTP, which awaits
\* the SELECT
VerifyOTP(r, email, otp) ==
  /\ vreq[r].pc \in {"idle", "done"}
  /\ vreq' = [vreq EXCEPT ![r] = [IdleVerify EXCEPT !.pc = "select",
                                                    !.email = email,
                                                    !.otp = otp]]
  /\ UNCHANGED <<otps, relayed, clientVars, handshake>>
  /\ UNCHANGED <<restVars, presenceVars, notifyVars, orderVars>>
  /\ UNCHANGED <<projects, mutations>>

\* the SELECT returns: without a row verifyOTP returns false and the
\* controller answers 400; with a row verifyOTP awaits the DELETE of it
SelectOtpReturns(r) ==
  /\ vreq[r].pc = "select"
  /\ LET rows == MatchingOtps(otps, vreq[r].email, vreq[r].otp, now) IN
       IF rows = {}
         THEN vreq' = [vreq EXCEPT ![r].pc = "done", ![r].answer = 400]
         ELSE \E i \in LatestOtps(otps, rows) :
                vreq' = [vreq EXCEPT ![r].pc = "delete", ![r].row = i]
  /\ UNCHANGED <<otps, relayed, clientVars, handshake>>
  /\ UNCHANGED <<restVars, presenceVars, notifyVars, orderVars>>
  /\ UNCHANGED <<projects, mutations>>

\* DELETE FROM otps WHERE id = $1 returns, whether it found the row or not;
\* verifyOTP returns true: the code has verified once more, and the
\* controller logs the user in and answers 200
DeleteOtpReturns(r) ==
  /\ vreq[r].pc = "delete"
  /\ otps' = [otps EXCEPT ![vreq[r].row].deleted = TRUE,
                          ![vreq[r].row].verified = @ + 1]
  /\ vreq' = [vreq EXCEPT ![r].pc = "done", ![r].answer = 200]
  /\ UNCHANGED <<relayed, clientVars, handshake>>
  /\ UNCHANGED <<restVars, presenceVars, notifyVars, orderVars>>
  /\ UNCHANGED <<projects, mutations>>

\* time passes
OtpTick ==
  /\ now < MaxOtpTicks * OtpTickStep
  /\ now' = now + OtpTickStep
  /\ UNCHANGED <<users, sockUser, sockRooms, pendingWrites, offlineResult>>
  /\ UNCHANGED notifyVars
  /\ UNCHANGED apiVars

\* codes are sent and verified, two verify requests at a time
AuthNext ==
  \/ \E email \in Emails, otp \in Codes : SendOTP(email, otp)
  \/ \E r \in Slots, email \in Emails, otp \in Codes : VerifyOTP(r, email, otp)
  \/ \E r \in Slots : SelectOtpReturns(r)
  \/ \E r \in Slots : DeleteOtpReturns(r)
  \/ OtpTick

SpecAuth == InitPresence /\ [][AuthNext]_vars

\* ------------------------------------------------- project specification
\* projects are created, renamed and deleted while tickets are created
ProjectNext ==
  \/ \E r \in OneSlot, u \in Users, p \in AllProjects : CreateTicket(r, u, p)
  \/ \E r \in OneSlot : GetMaxReturns(r)
  \/ \E r \in OneSlot, id \in TicketIds : InsertReturns(r, id)
  \/ \E r \in OneSlot : InsertThrows(r)
  \/ \E r \in OneSlot, u \in Users, name \in ProjectNames :
       CreateProject(r, u, name)
  \/ \E r \in OneSlot, id \in AllProjects : ProjectInsertReturns(r, id)
  \/ \E r \in OneSlot, u \in Users, p \in AllProjects,
          name \in ProjectNames \cup {Undefined} : UpdateProject(r, u, p, name)
  \/ \E r \in OneSlot : UpdateProjectReturns(r)
  \/ \E r \in OneSlot, u \in Users, p \in AllProjects : DeleteProject(r, u, p)
  \/ \E r \in OneSlot : GetProjectReturns(r)
  \/ \E r \in OneSlot : DeleteProjectReturns(r)
  \/ \E r \in OneSlot : ActivityReturns(r)
  \/ \E r \in OneSlot : ActivityThrows(r)
  \/ \E r \in OneSlot : NotifyReturns(r)

SpecProject == InitOrder /\ [][ProjectNext]_vars

\* ---------------------------------------------------- race specification
\* createTicket requests overlap: each slot runs one, and their awaits
\* interleave
RaceNext ==
  \/ \E r \in Slots, u \in Users, p \in AllProjects : CreateTicket(r, u, p)
  \/ \E r \in Slots : GetMaxReturns(r)
  \/ \E r \in Slots, id \in TicketIds : InsertReturns(r, id)
  \/ \E r \in Slots : ActivityReturns(r)
  \/ \E r \in Slots : NotifyReturns(r)

SpecRace == InitPresence /\ [][RaceNext]_vars

\* ------------------------------------------------------------- listings
\* a ticket as the API returns it
TicketRow(table, t) ==
  [id |-> t, project_id |-> table[t].project_id, status |-> table[t].status,
   order_index |-> table[t].order_index, created_at |-> table[t].created_at]

\* ORDER BY t.status, t.order_index ASC
OrderedBefore(a, b) ==
  \/ StatusRank[a.status] < StatusRank[b.status]
  \/ a.status = b.status /\ a.order_index <= b.order_index

\* getProjectTickets: the answers the database may give, which are the
\* arrangements of the project's rows that agree with the ORDER BY; rows
\* equal in status and order_index come in any order
getProjectTickets(table, projectId) ==
  LET rows == {TicketRow(table, t) :
                 t \in {x \in DOMAIN table : table[x].project_id = projectId}}
      n == Cardinality(rows) IN
    {seq \in [1..n -> rows] :
       /\ \A i, j \in 1..n : i # j => seq[i] # seq[j]
       /\ \A i, j \in 1..n : i < j => OrderedBefore(seq[i], seq[j])}

\* Array.prototype.sort places x behind the elements that do not compare
\* greater: (a, b) => a.order_index - b.order_index, the sort being stable
RECURSIVE InsertByOrderIndex(_, _)
InsertByOrderIndex(x, sorted) ==
  IF sorted = <<>> THEN <<x>>
  ELSE IF Head(sorted).order_index - x.order_index <= 0
         THEN <<Head(sorted)>> \o InsertByOrderIndex(x, Tail(sorted))
         ELSE <<x>> \o sorted

\* .sort((a, b) => a.order_index - b.order_index)
RECURSIVE SortByOrderIndex(_)
SortByOrderIndex(arr) ==
  IF arr = <<>> THEN <<>>
  ELSE InsertByOrderIndex(arr[Len(arr)],
                          SortByOrderIndex(SubSeq(arr, 1, Len(arr) - 1)))

\* variant: the filter without the sort
getTicketsByStatusUnsorted(arr, status) ==
  SelectSeq(arr, LAMBDA t : t.status = status)

\* ticketStore.getTicketsByStatus
getTicketsByStatus(arr, status) ==
  SortByOrderIndex(SelectSeq(arr, LAMBDA t : t.status = status))

\* GET /api/tickets/project/:projectId answers with the rows of the query
GetTickets(p) ==
  /\ \E rows \in getProjectTickets(tickets, p) : listing' = rows
  /\ UNCHANGED <<tickets, activities, treq, clientTickets>>
  /\ UNCHANGED <<restVars, presenceVars, notifyVars, projects, mutations, handshake, extVars>>

\* ticketStore.fetchProjectTickets: the store takes the answer, sorted by
\* order_index
FetchProjectTickets ==
  /\ clientTickets' = SortByOrderIndex(listing)
  /\ UNCHANGED <<tickets, activities, treq, listing>>
  /\ UNCHANGED <<restVars, presenceVars, notifyVars, projects, mutations, handshake, extVars>>

\* a ticket of the page's project reaches the store by itself, in the answer
\* to a creation or in a 'ticket-created' event, and is put at the end
AddTicket(t, p) ==
  /\ t \in DOMAIN tickets
  /\ tickets[t].project_id = p
  /\ \A i \in 1..Len(clientTickets) : clientTickets[i].id # t
  /\ clientTickets' = Append(clientTickets, TicketRow(tickets, t))
  /\ UNCHANGED <<tickets, activities, treq, listing>>
  /\ UNCHANGED <<restVars, presenceVars, notifyVars, projects, mutations, handshake, extVars>>

\* ------------------------------------------------ listing specification
\* tickets tables the requests above can leave behind: any lane and any of a
\* few order_index values for each ticket, created in the order of their ids
SeedOrderIndexes == {0, DEFAULT_TICKET_ORDER_INCREMENT}
SeedTables ==
  UNION {[1..k -> [project_id : AllProjects, status : Lanes,
                   order_index : SeedOrderIndexes, created_at : {0}]] :
           k \in 0..MaxTickets}
StampCreatedAt(table) ==
  [t \in DOMAIN table |-> [table[t] EXCEPT !.created_at = t]]

InitList == \E table \in SeedTables : InitStore({"u1"}, StampCreatedAt(table))

ListNext ==
  \/ \E p \in Projects : GetTickets(p)
  \/ FetchProjectTickets
  \/ \E t \in TicketIds, p \in Projects : AddTicket(t, p)

SpecList == InitList /\ [][ListNext]_vars

\* ------------------------------------------------------------ properties
Recipients == DOMAIN users \ {actor}
PushedTo(u) == \E c \in Conns : <<c, u>> \in pushRecv
EmailRoutes == {"email", "emailed", "emailFailed"}
PushRoutes == {"push", "pushError"}
FailedRoutes == {"pushError", "lookupError", "emailFailed"}
\* the recipient whose sendNotificationEmail never settled
HungRecipient == IF pc = "hung" THEN {allUsers[idx]} ELSE {}

C2_OneChannel ==
  \A u \in Users : (route[u] = "push" \/ PushedTo(u)) => emails[u] = 0

C2_Witness ==
  /\ pc = "done"
  /\ \E u, v \in Recipients :
       /\ PushedTo(u) /\ emails[u] = 0
       /\ route[v] = "skip" /\ emails[v] = 0 /\ ~PushedTo(v)

\* C3: the acting identity gets neither a push nor an email from its own
\* request, whatever its presence and however many sockets it holds
C3_ActorExcluded ==
  actor # NoUser =>
    /\ route[actor] = "none"
    /\ emails[actor] = 0
    /\ ~PushedTo(actor)

C3_Witness ==
  /\ pc = "done"
  /\ OpenSockets(actor) = Conns
  /\ users[actor].is_online
  /\ \A u \in Recipients : route[u] = "emailed"

\* C4: when the loop has ended every recipient other than the actor has been
\* through the loop body, also those that come after one whose iteration
\* failed
C4_FailureIsolated ==
  pc = "done" => \A u \in Recipients : route[u] # "none"

C4_Witness ==
  /\ pc = "done"
  /\ Len(allUsers) = 2
  /\ route[allUsers[1]] \in FailedRoutes
  /\ route[allUsers[2]] \in {"push", "emailed"}

\* C5: a fallback send that never completes does not keep the other
\* recipients of the same call from being processed
C5_NotSerialized ==
  [](pc = "hung" => <>(\A u \in Recipients \ HungRecipient : route[u] # "none"))

\* C6: the branch taken for a recipient agrees with the recipient's open
\* sockets at the moment the branch is taken
C6_RoutesOnCurrentSockets ==
  [][\A u \in Users :
       (route[u] = "none" /\ route'[u] # "none") =>
         ((route'[u] \in PushRoutes) <=> (OpenSockets(u) # {}))]_vars

\* C7: the board event of a ticket request is received by every socket that
\* has joined the project's room and not left it
C7_BoardReachesSubscribers ==
  [][(pc = "idle" /\ pc' = "getUsers") =>
       SocketsIn(JoinedProjectRoom(board'.project)) \subseteq board'.recv]_vars

\* C8: is_online goes from true to false only when the identity has no open
\* socket left
C8_RefCounted ==
  [][\A u \in DOMAIN users :
       (users[u].is_online /\ ~users'[u].is_online) => OpenSockets(u) = {}]_vars

\* C9: isUserOffline is true exactly when there is no row, or is_online is
\* false, or the age of last_seen is strictly more than 120 seconds
C9_IsOffline ==
  offlineResult.id # "none" =>
    (offlineResult.result <=>
       (\/ ~offlineResult.found
        \/ ~offlineResult.is_online
        \/ offlineResult.age > 120))

C9_Witness ==
  /\ offlineResult.id # "none"
  /\ offlineResult.found
  /\ offlineResult.is_online
  /\ offlineResult.age = 120
  /\ ~offlineResult.result

\* C10: applying the write a disconnect issued leaves last_seen as it was
C10_DisconnectKeepsLastSeen ==
  [][\A w \in Writes :
       (~w.is_online /\ ApplyWrite(w)) =>
         users'[w.user].last_seen = users[w.user].last_seen]_vars

\* C11: a request with a valid token that reaches the handler of a protected
\* route has the identity's last_seen brought up to the time of the request
C11_RequestTouches ==
  \A u \in PresenceUsers, t \in Times :
    [](lastReq = [user |-> u, at |-> t, status |-> "handler"]
         => <>(users[u].last_seen >= t))

\* C12: an identity that has an open socket, and whose row says is_online
\* since a connect was written, is not reported offline by isUserOffline,
\* however old its last_seen is
C12_OpenMeansOnline ==
  \A u \in DOMAIN users :
    (OpenSockets(u) # {} /\ users[u].is_online) => ~isUserOffline(users, u, now)

\* C13: an isUserOffline call for an identity that has no open socket left
\* and whose last_seen is more than 120 seconds old returns true, whatever
\* order the writes of its connects and disconnects were applied in
C13_OfflineAfterLastClose ==
  [][\A u \in DOMAIN users :
       (/\ offlineResult = NoResult
        /\ offlineResult'.id = u
        /\ OpenSockets(u) = {}
        /\ now - users[u].last_seen > 120)
         => offlineResult'.result]_vars

\* the connect's write was applied after the disconnect's: is_online is true
\* with no socket open
C13_Witness ==
  /\ offlineResult.id \in DOMAIN users
  /\ OpenSockets(offlineResult.id) = {}
  /\ pendingWrites = EmptyBag
  /\ offlineResult.is_online
  /\ offlineResult.age > 120
  /\ offlineResult.result

\* the largest order_index of a lane of a project, 0 for an empty lane
LaneMax(table, projectId, status) ==
  IF LaneRows(table, projectId, status) = {}
    THEN 0
    ELSE MaxOf({table[t].order_index : t \in LaneRows(table, projectId, status)})

\* C14: the UPDATE of a move stores the ticket in the destination lane with
\* order_index = largest order_index of that lane of the project (0 when the
\* lane is empty) + 1000
C14_MoveAppends ==
  [][\A r \in Slots :
       (treq[r].op = "move" /\ treq[r].pc = "update" /\ treq'[r].pc = "activity")
         => LET id == treq[r].id
                target == treq[r].body.status IN
              /\ tickets'[id].status = target
              /\ tickets'[id].order_index =
                   LaneMax(tickets, tickets[id].project_id, target) + 1000]_vars

\* C15: the INSERT of a creation that no other request overlaps stores the
\* ticket in TODO of its project with order_index = largest order_index of that
\* lane (0 when it is empty) + 1000, above every ticket already in the lane
C15_CreateAppends ==
  [][\A r \in OneSlot :
       (treq[r].op = "create" /\ treq[r].pc = "insert" /\ treq'[r].pc = "activity")
         => LET id == treq'[r].id
                p == treq[r].project_id IN
              /\ id \notin DOMAIN tickets
              /\ tickets'[id].project_id = p
              /\ tickets'[id].status = "TODO"
              /\ tickets'[id].order_index = LaneMax(tickets, p, "TODO") + 1000
              /\ \A t \in LaneRows(tickets, p, "TODO") :
                   tickets[t].order_index < tickets'[id].order_index]_vars

C15_Witness ==
  /\ treq["r1"].op = "create"
  /\ treq["r1"].answer = 201
  /\ \E t \in DOMAIN tickets :
       /\ t # treq["r1"].id
       /\ tickets[t].project_id = treq["r1"].project_id
       /\ tickets[t].status = "TODO"
       /\ tickets[treq["r1"].id].status = "TODO"
       /\ tickets[treq["r1"].id].order_index = tickets[t].order_index + 1000

\* C16: with requests handled one at a time, no two tickets of the same
\* project and lane have the same order_index
C16_UniqueInLane ==
  \A t1, t2 \in DOMAIN tickets :
    (/\ t1 # t2
     /\ tickets[t1].project_id = tickets[t2].project_id
     /\ tickets[t1].status = tickets[t2].status)
      => tickets[t1].order_index # tickets[t2].order_index

\* C17: overlapping creations are all answered 201 with their tickets stored
\* in TODO at order_index >= 1000, each at the maximum it read + 1000; two of
\* them for one project that both read the maximum before either wrote (they
\* read the same one, every write raising it) have two tickets with the same
\* order_index
C17_CreateRace ==
  /\ \A r \in Slots :
       /\ (treq[r].op = "create" /\ treq[r].pc \in {"activity", "notify", "done"})
            => /\ treq[r].id \in DOMAIN tickets
               /\ tickets[treq[r].id].status = "TODO"
               /\ tickets[treq[r].id].project_id = treq[r].project_id
               /\ tickets[treq[r].id].order_index = treq[r].maxOrder + 1000
               /\ tickets[treq[r].id].order_index >= 1000
       /\ (treq[r].op = "create" /\ treq[r].pc = "done") => treq[r].answer = 201
  /\ \A r1, r2 \in Slots :
       (/\ r1 # r2
        /\ treq[r1].op = "create" /\ treq[r2].op = "create"
        /\ treq[r1].pc \in {"activity", "notify", "done"}
        /\ treq[r2].pc \in {"activity", "notify", "done"}
        /\ treq[r1].project_id = treq[r2].project_id
        /\ treq[r1].maxOrder = treq[r2].maxOrder)
         => /\ treq[r1].id # treq[r2].id
            /\ tickets[treq[r1].id].order_index = tickets[treq[r2].id].order_index

C17_Witness ==
  /\ \A r \in Slots : treq[r].op = "create" /\ treq[r].answer = 201
  /\ treq["r1"].id # treq["r2"].id
  /\ treq["r1"].project_id = treq["r2"].project_id
  /\ tickets[treq["r1"].id].order_index = tickets[treq["r2"].id].order_index

\* C20: a move request whose status is none of TODO, IN_PROGRESS, DONE is
\* answered 400 at once, with tickets and activities as they were; one whose
\* status is a lane (and whose order_index is valid) goes on to the handler,
\* and for a ticket that exists the UPDATE is reached from every current lane
\* and stores the target lane, the current one included
C20_MoveValidation ==
  /\ [][\A r \in Slots :
          (SlotFree(r) /\ treq'[r].op = "move" /\ treq'[r] # treq[r])
            => IF treq'[r].body.status \notin {"TODO", "IN_PROGRESS", "DONE"}
                 THEN /\ treq'[r].pc = "done"
                      /\ treq'[r].answer = 400
                      /\ tickets' = tickets
                      /\ activities' = activities
                 ELSE treq'[r].body.order_index >= 0
                        => treq'[r].pc = "getCurrent"]_vars
  /\ [][\A r \in Slots :
          (/\ treq[r].op = "move"
           /\ treq[r].pc = "getCurrent"
           /\ treq[r].id \in DOMAIN tickets)
            => treq'[r].pc = "update"]_vars
  /\ [][\A r \in Slots :
          (/\ treq[r].op = "move"
           /\ treq[r].pc = "update"
           /\ treq[r].id \in DOMAIN tickets)
            => /\ treq'[r].pc = "activity"
               /\ tickets'[treq[r].id].status = treq[r].body.status]_vars
  /\ [](\A r \in Slots :
          (treq[r].op = "move" /\ treq[r].answer = 400) => treq[r].pc = "done")

\* a move to the lane the ticket is in already has been answered 200
C20_Witness ==
  /\ treq["r1"].op = "move"
  /\ treq["r1"].answer = 200
  /\ treq["r1"].current = treq["r1"].body.status
  /\ tickets[treq["r1"].id].status = treq["r1"].body.status

LaneOf(rows, status) == SelectSeq(rows, LAMBDA t : t.status = status)
NonDecreasing(rows) ==
  \A i \in 1..(Len(rows) - 1) : rows[i].order_index <= rows[i + 1].order_index
TiesByCreation(rows) ==
  \A i, j \in 1..Len(rows) :
    (i < j /\ rows[i].order_index = rows[j].order_index)
      => \/ rows[i].created_at < rows[j].created_at
         \/ rows[i].created_at = rows[j].created_at /\ rows[i].id < rows[j].id

\* C18: the tickets of a lane, in the answer of getProjectTickets and in what
\* getTicketsByStatus returns from the store, are in non-decreasing
\* order_index
C18_ListedByOrderIndex ==
  \A lane \in Lanes :
    /\ NonDecreasing(LaneOf(listing, lane))
    /\ NonDecreasing(getTicketsByStatus(clientTickets, lane))

\* the store holds two tickets of a lane with the larger order_index first
C18_Witness ==
  \E i, j \in 1..Len(clientTickets) :
    /\ i < j
    /\ clientTickets[i].status = clientTickets[j].status
    /\ clientTickets[i].order_index > clientTickets[j].order_index
    /\ Len(LaneOf(listing, clientTickets[i].status)) >= 2

\* C19: tickets of a lane with equal order_index are listed by created_at and
\* then by id, in the answer of getProjectTickets and in what
\* getTicketsByStatus returns
C19_TiesByCreation ==
  \A lane \in Lanes :
    /\ TiesByCreation(LaneOf(listing, lane))
    /\ TiesByCreation(getTicketsByStatus(clientTickets, lane))

\* the activities table before a step is the beginning of the one after it
IsPrefix(log, longer) ==
  /\ Len(log) <= Len(longer)
  /\ \A i \in 1..Len(log) : longer[i] = log[i]

\* C21: activity records are append-only: a record that has been appended is
\* neither changed nor removed by any later operation, the deletion of the
\* ticket or of the project it refers to included.
C21_AppendOnly == [][IsPrefix(activities, activities')]_vars

\* the store write of the request in slot r is committed and the handler is
\* in one of the steps that follow it
Committed(r) == treq[r].pc \in {"activity", "notify"}

\* C22: once the store write of a ticket or project request is committed, a
\* failure in a later step (appending the activity, notifying) does not abort
\* the request: it is answered with its success response, 201 or 200.
C22_CommittedAnswersSuccess ==
  [][\A r \in Slots :
       (Committed(r) /\ treq'[r].pc = "done") => treq'[r].answer \in {200, 201}]_vars

\* tokens that verify: those signed for a registered identity
ValidTokens == DOMAIN users
\* the handshake of socket c was made without a valid bearer token
Unauthenticated(c) == handshake[c] # "none" /\ handshake[c] \notin ValidTokens

\* C23: a socket whose handshake carries no valid bearer token is refused
\* before the connection is admitted: it is not in the registry, it is in no
\* user room and no project room, its handshake issues no presence write,
\* and no board event of it is relayed.
C23_HandshakeRejected ==
  /\ [](\A c \in Conns :
         Unauthenticated(c) => sockUser[c] = NoUser /\ sockRooms[c] = {})
  /\ [][\A c \in Conns :
         (handshake'[c] # handshake[c] /\ Unauthenticated(c)')
           => UNCHANGED <<users, pendingWrites, sockUser, sockRooms, relayed>>]_vars
  /\ [][relayed' # relayed => handshake[relayed'.from] \in ValidTokens]_vars

\* one socket was refused for a bad token while another socket is open and
\* has relayed a board event
C23_Witness ==
  \E c, d \in Conns :
    /\ handshake[c] = BadToken
    /\ sockUser[d] # NoUser
    /\ relayed.from = d

\* C24: for every kind of mutation (ticket created, updated, moved, deleted;
\* project created, updated, deleted) a request whose store write succeeded
\* appends exactly one activity and after that calls notifyAllUsers, once;
\* a request answered 404 appends no activity and notifies nobody.
C24_ActivityThenNotify ==
  [][\A r \in Slots :
       /\ (treq[r].pc = "activity" /\ treq'[r] # treq[r])
            => /\ treq'[r].pc = "notify"
               /\ Len(activities') = Len(activities) + 1
               /\ IsPrefix(activities, activities')
       /\ (treq'[r].pc = "notify" /\ treq[r].pc # "notify")
            => treq[r].pc = "activity"
       /\ (treq[r].pc = "notify" /\ treq'[r] # treq[r])
            => treq'[r].pc = "done" /\ activities' = activities
       /\ (treq'[r] # treq[r] /\ treq'[r].answer = 404)
            => /\ treq[r].pc \notin {"activity", "notify"}
               /\ UNCHANGED <<tickets, projects, activities>>]_vars

\* the step moves ticket t to another lane
LaneChanges(t) ==
  /\ t \in DOMAIN tickets
  /\ t \in DOMAIN tickets'
  /\ tickets'[t].status # tickets[t].status

\* C25: whenever the lane of a ticket changes, the operation that changes it
\* assigns the ticket an order_index for the destination lane; no operation,
\* the plain update of fields in particular, changes the lane and keeps the
\* order_index the ticket had.
C25_LaneChangeReindexes ==
  [][\A t \in TicketIds :
       LaneChanges(t)
         => \E r \in Slots :
              /\ treq[r].pc = "update"
              /\ treq[r].id = t
              /\ "order_index" \in DOMAIN treq[r].body
              /\ tickets'[t].order_index = treq[r].body.order_index]_vars

\* presence writes for u that were issued and are not yet applied
PendingFor(u) == {w \in BagToSet(pendingWrites) : w.user = u}

\* C26: once an identity has no open socket and every presence write its
\* connect and disconnect handlers issued has been applied, is_online is
\* false, in whatever order the writes were applied.
C26_QuiescentOffline ==
  \A u \in DOMAIN users :
    (OpenSockets(u) = {} /\ PendingFor(u) = {}) => ~users[u].is_online

\* C27: a client relays a board event (ticket-created, ticket-updated,
\* ticket-moved, ticket-deleted) to the other clients of the project room only
\* when its REST mutation succeeded; a move, update or delete that was
\* rejected or failed is not relayed.
C27_RelayAfterSuccess ==
  [][\A r \in Slots :
       (treq[r].pc = "done" /\ relayed' # relayed)
         => treq[r].answer \in {200, 201}]_vars

\* the step pushes the 'notification' event for recipient u
PushesFor(u) == route[u] = "none" /\ route'[u] = "push"

\* C28: a push notification dispatched for recipient R is received by every
\* connection that is open for R at that moment and by no connection of
\* another identity.
C28_PushReachesOnlyRecipient ==
  [][\A u \in Users :
       PushesFor(u)
         => /\ \A c \in OpenSockets(u) : <<c, u>> \in pushRecv'
            /\ \A x \in pushRecv' \ pushRecv : x[2] = u]_vars

\* a connection of the recipient received the push while a connection of
\* another identity was open and received nothing
C28_Witness ==
  \E u \in Users, c, d \in Conns :
    /\ route[u] = "push"
    /\ <<c, u>> \in pushRecv
    /\ sockUser[d] \notin {NoUser, u}
    /\ \A x \in pushRecv : x[1] # d

\* sockets of the browser that are connected to the server
OpenClientSockets ==
  {k \in ClientSocketIds : clientSockets[k].state = "open"}

\* C29: a client holds at most one socket connection at any time: calling
\* SocketService.connect again, in whatever state the service is, never
\* leaves two sockets open.
C29_OneSocket == Cardinality(OpenClientSockets) <= 1

\* C30: a stored OTP is used for at most one successful verification, in
\* every interleaving of verify requests for the same address and code, and
\* an OTP that has expired does not verify.
C30_SingleUse ==
  /\ [](\A i \in 1..Len(otps) : otps[i].verified <= 1)
  /\ [][\A r \in Slots :
         (vreq[r].pc = "select" /\ vreq'[r].pc = "delete")
           => otps[vreq'[r].row].expires_at > now]_vars

====
